---- MODULE Spec2Model ----
(***************************************************************************)
(* Model of the homestay booking application:                              *)
(*   - the booking form's price calculator (calculateTotal),               *)
(*   - the in-memory reservation repository (MemStorage),                  *)
(*   - the booking routes of the REST API (registerRoutes).                *)
(*                                                                         *)
(* The specifications share the variables:                                 *)
(*   SpecCalc   the calculator applied to bounded date strings,            *)
(*   SpecRepo   direct calls of the MemStorage booking methods,            *)
(*   SpecStore  SpecRepo with the contact methods,                         *)
(*   SpecAlias  SpecRepo with a caller writing to the records it was given,*)
(*   Spec       the HTTP handlers acting on the repository,                *)
(*   SpecFault  Spec with storage calls that reject,                       *)
(*   SpecForm   the booking form submitting to POST /api/bookings,         *)
(*   SpecCms    the image and content routes,                              *)
(*   SpecSlide  the slideshow of the home page.                            *)
(***************************************************************************)
EXTENDS Integers, Sequences, FiniteSets, TLC

VARIABLES
    bookings,       \* MemStorage.bookings: the Map, as its entries in insertion order
    now,            \* value new Date() would return, in ms
    createdOrder,   \* history: the keys in the order createBooking inserted them
    updates,        \* history: the number of updateBooking calls made
    result,         \* the last repository call and its return value / the last HTTP response
    inflight,       \* request handlers suspended at an await on real I/O
    notified,       \* the bookings sendBookingConfirmation was called with, in order
    calc,           \* the calculator's arguments and its return value
    contacts,       \* MemStorage.contacts: the Map, as its entries in insertion order
    form,           \* the state of the BookingForm component in the browser
    cms,            \* MemStorage.propertyImages and MemStorage.contentSections
    slideshow       \* the Slideshow component: its images prop and its state

vars == <<bookings, now, createdOrder, updates, result, inflight, notified, calc,
          contacts, form, cms, slideshow>>

(***************************************************************************)
(* Bounds                                                                  *)
(***************************************************************************)
MaxBookings == 2        \* at most this many createBooking calls
MaxUpdates == 1         \* at most this many updateBooking calls
MaxInflight == 1        \* at most this many handlers suspended at once
MaxHour == 6            \* the date-time strings carry hour 0 or MaxHour
MaxGuestsArg == 2       \* the calculator is tried with 0..MaxGuestsArg guests
MaxTimers == 2          \* at most this many payments of the form not yet answered
MaxContacts == 1        \* at most this many createContact calls

(***************************************************************************)
(* JavaScript numbers: an integer value or NaN                             *)
(***************************************************************************)
Num(v) == [nan |-> FALSE, v |-> v]
NaN == [nan |-> TRUE, v |-> 0]

\* a - b
NumSub(a, b) == IF a.nan \/ b.nan THEN NaN ELSE Num(a.v - b.v)

\* a + b
NumAdd(a, b) == IF a.nan \/ b.nan THEN NaN ELSE Num(a.v + b.v)

\* a % b: NaN for a zero divisor, else the remainder with the sign of a
NumMod(a, b) ==
    IF a.nan \/ b.nan \/ b.v = 0 THEN NaN
    ELSE LET d == IF b.v < 0 THEN -b.v ELSE b.v
         IN  IF a.v >= 0 THEN Num(a.v % d) ELSE Num(-((-a.v) % d))

\* mutant of NumCeilDiv: Math.floor in place of Math.ceil
NumCeilDiv_Floor(a, d) == IF a.nan THEN NaN ELSE Num(a.v \div d)

\* Math.ceil(a / d) for an integer divisor d > 0
NumCeilDiv(a, d) == IF a.nan THEN NaN ELSE Num(-((-a.v) \div d))

\* mutant of NumLeq: === in place of <=
NumLeq_OnlyEqual(a, k) == (~a.nan) /\ a.v = k

\* a <= k: every comparison with NaN is false
NumLeq(a, k) == (~a.nan) /\ a.v <= k

(***************************************************************************)
(* Date strings and new Date(string).getTime()                             *)
(*                                                                         *)
(* A string is the empty string, a text that denotes no date, or an ISO    *)
(* date "YYYY-MM-DD" / date-time "YYYY-MM-DDTHH:00Z".  Time values are     *)
(* counted in hours (UnitMs milliseconds) since the epoch.                 *)
(***************************************************************************)
UnitMs == 1000 * 60 * 60
MsPerDay == 1000 * 60 * 60 * 24
UnitsPerDay == MsPerDay \div UnitMs

EmptyStr == [kind |-> "empty"]
GarbageStr == [kind |-> "text"]
IsoStr(y, m, d, h) == [kind |-> "iso", y |-> y, m |-> m, d |-> d, h |-> h]

IsLeap(y) == (y % 4 = 0 /\ y % 100 # 0) \/ y % 400 = 0

DaysInMonth(y, m) ==
    IF m = 2 THEN (IF IsLeap(y) THEN 29 ELSE 28)
    ELSE IF m \in {4, 6, 9, 11} THEN 30 ELSE 31

\* days from 1970-01-01 to y-m-d in the proleptic Gregorian calendar
DaysFromCivil(y, m, d) ==
    LET yy == IF m <= 2 THEN y - 1 ELSE y
        era == yy \div 400
        yoe == yy - era * 400
        mp == (m + 9) % 12
        doy == (153 * mp + 2) \div 5 + d - 1
        doe == yoe * 365 + yoe \div 4 - yoe \div 100 + doy
    IN era * 146097 + doe - 719468

\* new Date(s).getTime()
GetTime(s) ==
    IF s.kind = "iso"
    THEN Num(DaysFromCivil(s.y, s.m, s.d) * UnitsPerDay + s.h)
    ELSE NaN

\* !s for a string s
Falsy(s) == s.kind = "empty"

Years == {2023, 2024}
Months == {2, 3, 12}
DayNumbers == {1, 28, 29, 31}
Hours == {0, MaxHour}

IsoStrs ==
    {IsoStr(y, m, d, h) : y \in Years, m \in Months, d \in DayNumbers, h \in Hours}

ValidIsoStrs == {s \in IsoStrs : s.d <= DaysInMonth(s.y, s.m)}

DateStrs == {EmptyStr, GarbageStr} \cup ValidIsoStrs

(***************************************************************************)
(* calculateTotal                                                          *)
(***************************************************************************)
BasePrice == 850

\* Math.round(n * (pct / 100)) for an integer n >= 0: nearest, halves up
RoundPct(n, pct) == (2 * n * pct + 100) \div 200

NightsOf(checkin, checkout) ==
    NumCeilDiv(NumSub(GetTime(checkout), GetTime(checkin)), UnitsPerDay)

PriceOf(nights) ==
    IF nights.nan THEN NaN
    ELSE LET subtotal == BasePrice * nights.v
             serviceFee == RoundPct(subtotal, 6)
             taxes == RoundPct(subtotal, 8)
         IN Num(subtotal + serviceFee + taxes)

calculateTotal(checkin, checkout, guests) ==
    IF Falsy(checkin) \/ Falsy(checkout) THEN Num(0)
    ELSE LET nights == NightsOf(checkin, checkout)
         IN IF NumLeq(nights, 0) THEN Num(0) ELSE PriceOf(nights)

(***************************************************************************)
(* JavaScript objects and Maps                                             *)
(*                                                                         *)
(* An object is a function from its own keys to values.  A Map is the      *)
(* sequence of its entries in insertion order.                             *)
(***************************************************************************)
Undefined == "<undefined>"
Null == "<null>"
EmptyObj == [f \in {} |-> Undefined]

\* { ...a, ...b }
Spread(a, b) ==
    [f \in (DOMAIN a) \cup (DOMAIN b) |-> IF f \in DOMAIN b THEN b[f] ELSE a[f]]

\* obj[f] for a string-valued property: undefined when the key is absent
Prop(obj, f) == IF f \in DOMAIN obj THEN obj[f] ELSE Undefined

\* truthiness of a string-valued property
Truthy(v) == v # Undefined /\ v # Null /\ v # ""

MapKeys(m) == {m[i].key : i \in 1..Len(m)}

MapHas(m, k) == k \in MapKeys(m)

MapIndex(m, k) == CHOOSE i \in 1..Len(m) : m[i].key = k

\* Map.get: the value, or NotFound for undefined
NotFound == [missing |-> TRUE]
MapGet(m, k) == IF MapHas(m, k) THEN m[MapIndex(m, k)].val ELSE NotFound

\* mutant of MapSet: the Map is made anew with the one entry
MapSet_Anew(m, k, v) == <<[key |-> k, val |-> v]>>

\* Map.set: an existing key keeps its position, a new key goes last
MapSet(m, k, v) ==
    IF MapHas(m, k)
    THEN [m EXCEPT ![MapIndex(m, k)] = [key |-> k, val |-> v]]
    ELSE Append(m, [key |-> k, val |-> v])

\* Array.from(map.values())
MapValues(m) == [i \in 1..Len(m) |-> m[i].val]

(***************************************************************************)
(* MemStorage: the booking methods                                         *)
(***************************************************************************)
\* mutant of CompareCreatedAt: the operands exchanged (oldest first)
CompareCreatedAt_Ascending(a, b) == a.createdAt - b.createdAt

\* the comparator of getBookings: b.createdAt - a.createdAt
CompareCreatedAt(a, b) == b.createdAt - a.createdAt

\* one step of a stable sort: x, which precedes every element of s in the
\* array, passes only the elements the comparator orders before it
RECURSIVE InsertSorted(_, _)
InsertSorted(x, s) ==
    IF s = <<>> THEN <<x>>
    ELSE IF CompareCreatedAt(x, Head(s)) <= 0
         THEN <<x>> \o s
         ELSE <<Head(s)>> \o InsertSorted(x, Tail(s))

\* Array.prototype.sort with the comparator (stable); elements are taken
\* last to first so that equal elements keep their order
RECURSIVE SortByCreatedAt(_)
SortByCreatedAt(s) ==
    IF s = <<>> THEN <<>>
    ELSE InsertSorted(Head(s), SortByCreatedAt(Tail(s)))

getBookings(m) == SortByCreatedAt(MapValues(m))

\* mutant of getBooking: an unknown identifier yields the first booking
getBooking_OrFirst(m, id) ==
    IF MapHas(m, id) \/ m = <<>> THEN MapGet(m, id) ELSE m[1].val

getBooking(m, id) == MapGet(m, id)

\* mutant of NewBooking: the phone is always stored as null
NewBooking_PhoneDropped(data, id, time) ==
    Spread(data, [guestPhone |-> Null, id |-> id, createdAt |-> time])

\* the record createBooking builds from the submitted data
NewBooking(data, id, time) ==
    Spread(data,
           [guestPhone |-> IF Truthy(Prop(data, "guestPhone"))
                           THEN data.guestPhone ELSE Null,
            id |-> id,
            createdAt |-> time])

\* mutant of createBooking: the record is not in the Map when the call returns
createBooking_NotYet(m, data, id, time) == m

\* the Map after createBooking
createBooking(m, data, id, time) == MapSet(m, id, NewBooking(data, id, time))

\* mutant of updateBooking: the stored record is replaced by the update
updateBooking_Replace(m, id, updateData) ==
    IF ~MapHas(m, id) THEN m ELSE MapSet(m, id, updateData)

\* mutant of updateBooking: an unknown identifier is inserted
updateBooking_Upsert(m, id, updateData) ==
    MapSet(m, id, IF MapHas(m, id) THEN Spread(MapGet(m, id), updateData) ELSE updateData)

\* the Map after updateBooking
updateBooking(m, id, updateData) ==
    IF ~MapHas(m, id) THEN m
    ELSE MapSet(m, id, Spread(MapGet(m, id), updateData))

\* the value updateBooking returns
updateBookingResult(m, id, updateData) ==
    IF ~MapHas(m, id) THEN NotFound
    ELSE Spread(MapGet(m, id), updateData)

\* randomUUID(): an identifier no stored booking has; of the unused
\* identifiers the least and the greatest are tried
Ids == 1..(MaxBookings + 1)
UnusedIds(m) == Ids \ MapKeys(m)
\* mutant of FreshIds: an identifier in use may be drawn again
FreshIds_Reused(m) == Ids

FreshIds(m) ==
    {id \in UnusedIds(m) : \/ \A other \in UnusedIds(m) : id <= other
                           \/ \A other \in UnusedIds(m) : id >= other}

\* the handlers never look into an identifier: there the least unused one
\* stands for the new one
RandomUUID(m) == CHOOSE id \in UnusedIds(m) : \A other \in UnusedIds(m) : id <= other

(***************************************************************************)
(* MemStorage: the contact methods                                         *)
(***************************************************************************)
\* the record createContact builds and returns
NewContact(data, id, time) == Spread(data, [id |-> id, createdAt |-> time])

\* the Map after createContact
createContact(m, data, id, time) == MapSet(m, id, NewContact(data, id, time))

getContacts(m) == SortByCreatedAt(MapValues(m))

(***************************************************************************)
(* Inputs                                                                  *)
(***************************************************************************)
\* e-mail addresses are sequences of characters
ValidEmail == <<"a", "@", "b", ".", "c", "o">>
NoAtEmail == <<"a", "b", ".", "c", "o">>

CheckinStr == IsoStr(2024, 3, 1, 0)
CheckoutStr == IsoStr(2024, 3, 29, 0)

\* validated booking data (InsertBooking): the phone omitted, empty or given
BaseData ==
    [checkinDate |-> CheckinStr, checkoutDate |-> CheckoutStr, guests |-> 2,
     guestName |-> "Ana", guestEmail |-> ValidEmail,
     totalAmount |-> "26656", status |-> "pending"]

InsertDatas ==
    {BaseData,
     Spread(BaseData, [guestPhone |-> ""]),
     Spread(BaseData, [guestPhone |-> "555-0100", status |-> "confirmed"])}

\* the fields a client submits
SubmittedFields ==
    {"checkinDate", "checkoutDate", "guests", "guestName", "guestEmail",
     "guestPhone", "totalAmount", "status"}

\* validated contact messages (InsertContact)
ContactDatas == {[name |-> "Ana", email |-> ValidEmail, message |-> "Hello"]}

\* partial bookings (Partial<Booking>) passed to updateBooking
UpdateDatas ==
    {EmptyObj,
     [status |-> "confirmed"],
     [guestName |-> "Bo", guests |-> 4],
     [guestPhone |-> Null],
     [createdAt |-> 0]}

(***************************************************************************)
(* State                                                                   *)
(***************************************************************************)
\* the booking form as mounted: the default values of the two date inputs,
\* no booking data kept, the payment dialog closed, no payment timer
\* pending, no request on its way and no mutation awaiting its response
NoBookingData == [isNull |-> TRUE]

InitForm ==
    [checkinDate |-> EmptyStr, checkoutDate |-> EmptyStr, bookingData |-> NoBookingData,
     showPaymentForm |-> FALSE, timers |-> <<>>, sent |-> <<>>, awaiting |-> 0]

\* a number-valued property that is undefined
UndefinedNum == [undefined |-> TRUE]

\* the record createPropertyImage builds and returns
NewImage(data, id) ==
    Spread(data,
           [title |-> IF Truthy(Prop(data, "title")) THEN data.title ELSE Null,
            description |-> IF Truthy(Prop(data, "description"))
                            THEN data.description ELSE Null,
            sortOrder |-> IF "sortOrder" \in DOMAIN data /\ data.sortOrder # Num(0)
                          THEN data.sortOrder ELSE Num(0),
            isActive |-> IF Truthy(Prop(data, "isActive")) THEN data.isActive ELSE "true",
            id |-> id])

\* the record createContentSection builds and returns
NewSection(data, id, time) ==
    Spread(data,
           [metadata |-> IF Truthy(Prop(data, "metadata")) THEN data.metadata ELSE Null,
            id |-> id, updatedAt |-> time])

\* of the default content the constructor creates, two exterior images and
\* one section stand for the rest
DefaultImage(index) ==
    [category |-> "exterior", url |-> IF index = 0 THEN "house.jpg" ELSE "villa.jpg",
     title |-> "Exterior View",
     description |-> "Beautiful exterior view of the luxury villa",
     sortOrder |-> Num(index), isActive |-> "true"]

DefaultSection ==
    [sectionKey |-> "hero-title", title |-> "Hero Title",
     content |-> "Luxury Villa Retreat", metadata |-> "{editable: true}"]

InitCms ==
    [images |-> <<[key |-> 1, val |-> NewImage(DefaultImage(0), 1)],
                  [key |-> 2, val |-> NewImage(DefaultImage(1), 2)]>>,
     sections |-> <<[key |-> "hero-title", val |-> NewSection(DefaultSection, 1, 0)]>>]

\* the slideshow as mounted by the home page before the images are loaded:
\* no image, the first slide current
InitSlideshow == [images |-> <<>>, currentSlide |-> Num(0)]

NoResult == [op |-> "none"]
NoCalc == [applied |-> FALSE]

InitStore ==
    /\ bookings = <<>>
    /\ now = 0
    /\ createdOrder = <<>>
    /\ updates = 0
    /\ result = NoResult
    /\ inflight = {}
    /\ notified = <<>>
    /\ contacts = <<>>
    /\ form = InitForm
    /\ cms = InitCms
    /\ slideshow = InitSlideshow

Init == InitStore /\ calc = NoCalc

\* the instants, in ms, at which the clock is observed
Times == {0, 1}

\* time passes between two calls
Tick ==
    /\ \E t \in Times : t > now /\ now' = t
    /\ UNCHANGED <<bookings, createdOrder, updates, result, inflight, notified, calc,
                   contacts, form, cms, slideshow>>

(***************************************************************************)
(* SpecRepo: direct calls of the MemStorage booking methods                *)
(***************************************************************************)
RepoCreateBooking ==
    /\ Len(createdOrder) < MaxBookings
    /\ \E data \in InsertDatas, id \in FreshIds(bookings) :
          /\ bookings' = createBooking(bookings, data, id, now)
          /\ createdOrder' = Append(createdOrder, id)
          /\ result' = [op |-> "createBooking", data |-> data,
                        ret |-> NewBooking(data, id, now)]
    /\ UNCHANGED <<now, updates, inflight, notified, calc,
                   contacts, form, cms, slideshow>>

RepoGetBooking ==
    /\ \E id \in Ids :
          result' = [op |-> "getBooking", id |-> id, ret |-> getBooking(bookings, id)]
    /\ UNCHANGED <<bookings, now, createdOrder, updates, inflight, notified, calc,
                   contacts, form, cms, slideshow>>

RepoGetBookings ==
    /\ result' = [op |-> "getBookings", ret |-> getBookings(bookings)]
    /\ UNCHANGED <<bookings, now, createdOrder, updates, inflight, notified, calc,
                   contacts, form, cms, slideshow>>

RepoUpdateBooking ==
    /\ updates < MaxUpdates
    /\ updates' = updates + 1
    /\ \E id \in Ids, updateData \in UpdateDatas :
          /\ bookings' = updateBooking(bookings, id, updateData)
          /\ result' = [op |-> "updateBooking", id |-> id, updateData |-> updateData,
                        ret |-> updateBookingResult(bookings, id, updateData)]
    /\ UNCHANGED <<now, createdOrder, inflight, notified, calc,
                   contacts, form, cms, slideshow>>

NextRepo ==
    \/ Tick
    \/ RepoCreateBooking
    \/ RepoGetBooking
    \/ RepoGetBookings
    \/ RepoUpdateBooking

SpecRepo == Init /\ [][NextRepo]_vars

(***************************************************************************)
(* SpecStore: SpecRepo with direct calls of the contact methods            *)
(***************************************************************************)
RepoCreateContact ==
    /\ Len(contacts) < MaxContacts
    /\ \E data \in ContactDatas :
          LET id == RandomUUID(contacts)
          IN /\ contacts' = createContact(contacts, data, id, now)
             /\ result' = [op |-> "createContact", data |-> data,
                           ret |-> NewContact(data, id, now)]
    /\ UNCHANGED <<bookings, now, createdOrder, updates, inflight, notified, calc, form, cms, slideshow>>

RepoGetContacts ==
    /\ result' = [op |-> "getContacts", ret |-> getContacts(contacts)]
    /\ UNCHANGED <<bookings, now, createdOrder, updates, inflight, notified, calc,
                   contacts, form, cms, slideshow>>

NextStore ==
    \/ NextRepo
    \/ RepoCreateContact
    \/ RepoGetContacts

SpecStore == Init /\ [][NextStore]_vars

(***************************************************************************)
(* SpecAlias: SpecRepo with a caller that writes to what it was given      *)
(*                                                                         *)
(* createBooking and updateBooking return the object they put into the     *)
(* Map, getBooking returns the object the Map holds and getBookings a new  *)
(* array of those objects; createBooking copies the fields of its          *)
(* argument into a new object.                                             *)
(***************************************************************************)
\* the keys of the Map entries whose object the last call returned
ReturnedKeys ==
    CASE result.op \in {"createBooking"} -> {result.ret.id}
      [] result.op \in {"getBooking", "updateBooking"} ->
            IF result.ret = NotFound THEN {} ELSE {result.id}
      [] result.op = "getBookings" ->
            {bookings[i].key : i \in 1..Len(bookings)}
      [] OTHER -> {}

\* the caller assigns to a field of a record the last call returned
CallerWritesReturned ==
    /\ \E k \in ReturnedKeys :
          /\ bookings' = [bookings EXCEPT ![MapIndex(bookings, k)].val.guestName = "Eve"]
          /\ result' = [op |-> "callerWrite", id |-> k]
    /\ UNCHANGED <<now, createdOrder, updates, inflight, notified, calc, contacts, form, cms, slideshow>>

\* the caller assigns to a field of the data object it passed to
\* createBooking: the stored record is another object
CallerWritesData ==
    /\ result.op = "createBooking"
    /\ result' = [op |-> "callerWriteData", id |-> result.ret.id]
    /\ UNCHANGED <<bookings, now, createdOrder, updates, inflight, notified, calc,
                   contacts, form, cms, slideshow>>

NextAlias ==
    \/ NextRepo
    \/ CallerWritesReturned
    \/ CallerWritesData

SpecAlias == Init /\ [][NextAlias]_vars

(***************************************************************************)
(* SpecCalc: the calculator applied to every pair of date strings          *)
(***************************************************************************)
GuestArgs == 0..MaxGuestsArg

InitCalc ==
    /\ InitStore
    /\ calc \in [applied : {FALSE}, checkin : DateStrs, checkout : DateStrs,
                 guests : GuestArgs]

\* the price breakdown the form renders under the Reserve button: nothing
\* unless total > 0, else the nights, (total * 0.86).toFixed(0),
\* Math.round(total * 0.06), Math.round(total * 0.08) and the total
PriceBreakdown(checkin, checkout, total) ==
    IF total.nan \/ total.v <= 0
    THEN [shown |-> FALSE]
    ELSE [shown |-> TRUE,
          nights |-> NightsOf(checkin, checkout),
          subtotal |-> RoundPct(total.v, 86),
          serviceFee |-> RoundPct(total.v, 6),
          taxes |-> RoundPct(total.v, 8),
          total |-> total.v]

\* a render of the form with the watched values: the total is computed and
\* the breakdown shown
ApplyCalculateTotal ==
    /\ ~calc.applied
    /\ LET total == calculateTotal(calc.checkin, calc.checkout, calc.guests)
       IN calc' = [applied |-> TRUE, checkin |-> calc.checkin,
                   checkout |-> calc.checkout, guests |-> calc.guests,
                   total |-> total,
                   breakdown |-> PriceBreakdown(calc.checkin, calc.checkout, total)]
    /\ UNCHANGED <<bookings, now, createdOrder, updates, result, inflight, notified,
                   contacts, form, cms, slideshow>>

NextCalc == ApplyCalculateTotal

SpecCalc == InitCalc /\ [][NextCalc]_vars

(***************************************************************************)
(* insertBookingSchema                                                     *)
(***************************************************************************)
AtSigns(e) == {i \in 1..Len(e) : e[i] = "@"}

\* z.string().email(): one "@" after a non-empty local part, then a domain
\* of a non-empty label, a dot and a top-level name of two or more characters
IsEmail(e) ==
    /\ Cardinality(AtSigns(e)) = 1
    /\ LET at == CHOOSE i \in AtSigns(e) : TRUE
       IN /\ at > 1
          /\ \E dot \in (at + 2)..(Len(e) - 2) : e[dot] = "."
          /\ e[1] # "."
          /\ e[Len(e)] # "."

MinGuests == 1
MaxGuests == 10

\* mutant of FieldOk: the guest count has no upper limit
FieldOk_NoUpperBound(body, f) ==
    CASE f = "checkinDate" -> f \in DOMAIN body /\ body[f].kind # "empty"
      [] f = "checkoutDate" -> f \in DOMAIN body /\ body[f].kind # "empty"
      [] f = "guests" -> f \in DOMAIN body /\ body[f] >= MinGuests
      [] f = "guestName" -> f \in DOMAIN body /\ body[f] # ""
      [] f = "guestEmail" -> f \in DOMAIN body /\ IsEmail(body[f])
      [] f = "totalAmount" -> f \in DOMAIN body /\ body[f] # ""
      [] OTHER -> TRUE

\* does the field of the body satisfy its constraint of the schema
FieldOk(body, f) ==
    CASE f = "checkinDate" -> f \in DOMAIN body /\ body[f].kind # "empty"
      [] f = "checkoutDate" -> f \in DOMAIN body /\ body[f].kind # "empty"
      [] f = "guests" -> f \in DOMAIN body /\ body[f] >= MinGuests /\ body[f] <= MaxGuests
      [] f = "guestName" -> f \in DOMAIN body /\ body[f] # ""
      [] f = "guestEmail" -> f \in DOMAIN body /\ IsEmail(body[f])
      [] f = "totalAmount" -> f \in DOMAIN body /\ body[f] # ""
      [] OTHER -> TRUE

\* mutant of SchemaIssues: parsing stops at the first failing field
SchemaIssues_FirstOnly(body) ==
    LET failing == {f \in SubmittedFields : ~FieldOk(body, f)}
    IN IF failing = {} THEN {} ELSE {CHOOSE f \in failing : TRUE}

\* the paths of the issues of the ZodError; empty when parse succeeds
SchemaIssues(body) == {f \in SubmittedFields : ~FieldOk(body, f)}

\* the value insertBookingSchema.parse returns: the known keys, status
\* defaulted to pending
SchemaParse(body) ==
    [f \in ((DOMAIN body) \cap SubmittedFields) \cup {"status"} |->
        IF f \in DOMAIN body THEN body[f] ELSE "pending"]

(***************************************************************************)
(* Request bodies                                                          *)
(***************************************************************************)
BodyNoStatus ==
    [checkinDate |-> CheckinStr, checkoutDate |-> CheckoutStr, guests |-> 2,
     guestName |-> "Ana", guestEmail |-> ValidEmail, totalAmount |-> "26656"]

BookingBodies ==
    {BodyNoStatus,
     Spread(BodyNoStatus, [guestPhone |-> "", status |-> "confirmed"]),
     Spread(BodyNoStatus, [status |-> "cancelled"]),
     Spread(BodyNoStatus, [guests |-> 11]),
     Spread(BodyNoStatus, [guestEmail |-> NoAtEmail]),
     Spread(BodyNoStatus, [guests |-> 0, guestEmail |-> NoAtEmail])}

\* bodies of PATCH /api/bookings/:id
PatchBodies ==
    {EmptyObj, [status |-> ""], [status |-> "confirmed"], [status |-> "cancelled"]}

\* req.body.bookingData of POST /api/process-payment
PaymentBookingBodies ==
    {BodyNoStatus,
     Spread(BodyNoStatus, [guestPhone |-> "", status |-> "pending"]),
     Spread(BodyNoStatus, [guests |-> 11])}

\* req.body.paymentData: card data the payment schema accepts or rejects
PaymentDatas == {"card-ok", "card-bad"}
PaymentOk(paymentData) == paymentData = "card-ok"

(***************************************************************************)
(* Spec: the HTTP handlers                                                 *)
(*                                                                         *)
(* A handler runs without interruption up to an await on real I/O (the     *)
(* mail service, the timer of the mocked payment); there it is kept in     *)
(* inflight until the I/O completes.                                       *)
(***************************************************************************)
\* the response sent, kept with the request it answers
Respond(route, req, code, body) ==
    [op |-> route, req |-> req, code |-> code, body |-> body]

ValidationError(issues) == [message |-> "Validation error", errors |-> issues]

\* creations still to come from the payments waiting for their timer
PendingCreates == Cardinality({h \in inflight : h.stage = "delay"})

\* GET /api/bookings
GetBookings ==
    /\ result' = Respond("GET /api/bookings", EmptyObj, 200, getBookings(bookings))
    /\ UNCHANGED <<bookings, now, createdOrder, updates, inflight, notified, calc,
                   contacts, form, cms, slideshow>>

\* GET /api/bookings/:id
GetBookingById ==
    /\ \E id \in Ids :
          LET booking == getBooking(bookings, id)
              req == [id |-> id]
          IN result' =
                IF booking = NotFound
                THEN Respond("GET /api/bookings/:id", req, 404,
                             [message |-> "Booking not found"])
                ELSE Respond("GET /api/bookings/:id", req, 200, booking)
    /\ UNCHANGED <<bookings, now, createdOrder, updates, inflight, notified, calc,
                   contacts, form, cms, slideshow>>

\* mutant of IsConfirmed: every status but pending counts
IsConfirmed_NotPending(booking) == booking.status # "pending"

\* the condition under which the confirmation mail is sent
IsConfirmed(booking) == booking.status = "confirmed"

\* POST /api/bookings with the given body, up to the response or to the
\* call of the mail service
PostBookingOf(body) ==
    LET issues == SchemaIssues(body)
        req == [body |-> body]
    IN IF issues # {}
       THEN /\ result' = Respond("POST /api/bookings", req, 400, ValidationError(issues))
            /\ UNCHANGED <<bookings, now, createdOrder, updates, inflight, notified, calc,
                           contacts, cms, slideshow>>
       ELSE /\ Len(createdOrder) + PendingCreates < MaxBookings
            /\ LET id == RandomUUID(bookings)
                    data == SchemaParse(body)
                    booking == NewBooking(data, id, now)
               IN /\ bookings' = createBooking(bookings, data, id, now)
                  /\ createdOrder' = Append(createdOrder, id)
                  /\ IF IsConfirmed(booking)
                     THEN /\ Cardinality(inflight) < MaxInflight
                          /\ notified' = Append(notified, booking)
                          /\ inflight' = inflight \cup
                                {[route |-> "POST /api/bookings", stage |-> "notify",
                                  req |-> req, booking |-> booking]}
                          /\ UNCHANGED result
                     ELSE /\ result' = Respond("POST /api/bookings", req, 201, booking)
                          /\ UNCHANGED <<inflight, notified>>
            /\ UNCHANGED <<now, updates, calc, contacts, cms, slideshow>>

\* POST /api/bookings sent by any client
PostBooking ==
    /\ \E body \in BookingBodies : PostBookingOf(body)
    /\ UNCHANGED form

\* mutant of StatusMissing: only an absent status is missing
StatusMissing_OnlyAbsent(body) == "status" \notin DOMAIN body

\* is the status of the body of a PATCH missing (absent or empty)
StatusMissing(body) == ~Truthy(Prop(body, "status"))

\* PATCH /api/bookings/:id
PatchBooking ==
    \E id \in Ids, body \in PatchBodies :
       LET req == [id |-> id, body |-> body]
       IN IF StatusMissing(body)
          THEN /\ result' = Respond("PATCH /api/bookings/:id", req, 400,
                                    [message |-> "Status is required"])
               /\ UNCHANGED <<bookings, now, createdOrder, updates, inflight, notified, calc,
                              contacts, form, cms, slideshow>>
          ELSE /\ bookings' = updateBooking(bookings, id, [status |-> body.status])
               /\ LET booking == updateBookingResult(bookings, id, [status |-> body.status])
                  IN result' =
                        IF booking = NotFound
                        THEN Respond("PATCH /api/bookings/:id", req, 404,
                                     [message |-> "Booking not found"])
                        ELSE Respond("PATCH /api/bookings/:id", req, 200, booking)
               /\ UNCHANGED <<now, createdOrder, updates, inflight, notified, calc,
                              contacts, form, cms, slideshow>>

\* POST /api/process-payment, up to the response or to the timer
ProcessPayment ==
    \E paymentData \in PaymentDatas, bookingData \in PaymentBookingBodies :
       LET issues == SchemaIssues(bookingData)
           req == [paymentData |-> paymentData, bookingData |-> bookingData]
       IN IF ~PaymentOk(paymentData)
          THEN /\ result' = Respond("POST /api/process-payment", req, 400,
                                    ValidationError({"paymentData"}))
               /\ UNCHANGED <<bookings, now, createdOrder, updates, inflight, notified, calc,
                              contacts, form, cms, slideshow>>
          ELSE IF issues # {}
          THEN /\ result' = Respond("POST /api/process-payment", req, 400,
                                    ValidationError(issues))
               /\ UNCHANGED <<bookings, now, createdOrder, updates, inflight, notified, calc,
                              contacts, form, cms, slideshow>>
          ELSE /\ Len(createdOrder) + PendingCreates < MaxBookings
               /\ Cardinality(inflight) < MaxInflight
               /\ [route |-> "POST /api/process-payment", stage |-> "delay",
                   req |-> req, data |-> SchemaParse(bookingData)] \notin inflight
               /\ inflight' = inflight \cup
                     {[route |-> "POST /api/process-payment", stage |-> "delay",
                       req |-> req, data |-> SchemaParse(bookingData)]}
               /\ UNCHANGED <<bookings, now, createdOrder, updates, result, notified, calc,
                              contacts, form, cms, slideshow>>

\* mutant of PaidBooking: the booking keeps the status that was submitted
PaidBooking_AsSubmitted(validatedBooking) == validatedBooking

\* the data the payment handler passes to createBooking
PaidBooking(validatedBooking) == Spread(validatedBooking, [status |-> "confirmed"])

\* the timer of a payment fires: the booking is created as confirmed and
\* the mail service is called
PaymentTimerFires ==
    \E h \in inflight :
       /\ h.stage = "delay"
       /\ LET id == RandomUUID(bookings)
              data == PaidBooking(h.data)
              booking == NewBooking(data, id, now)
          IN /\ bookings' = createBooking(bookings, data, id, now)
             /\ createdOrder' = Append(createdOrder, id)
             /\ notified' = Append(notified, booking)
             /\ inflight' = (inflight \ {h}) \cup
                   {[route |-> "POST /api/process-payment", stage |-> "notify",
                     req |-> h.req, booking |-> booking]}
       /\ UNCHANGED <<now, updates, result, calc, contacts, form, cms, slideshow>>

\* how the awaited sendBookingConfirmation ends: it resolves to true, it
\* resolves to false, or it rejects
NotifierOutcomes == {"true", "false", "throws"}

\* what the handler writes to the console after the notifier
Logged(outcome) ==
    CASE outcome = "true" -> "none"
      [] outcome = "false" -> "warn: Failed to send booking confirmation email"
      [] outcome = "throws" -> "error: Email sending error"

\* mutant of NotifierResponse: a failed notifier fails the request
NotifierResponse_FailsRequest(h, outcome) ==
    IF outcome # "true"
    THEN Respond(h.route, h.req, 500, [message |-> "Failed to create booking"])
    ELSE Respond(h.route, h.req, 201, h.booking)

\* the response of a handler once the notifier has ended
NotifierResponse(h, outcome) ==
    IF h.route = "POST /api/bookings"
    THEN Respond("POST /api/bookings", h.req, 201, h.booking)
    ELSE Respond("POST /api/process-payment", h.req, 200,
                 [success |-> TRUE, booking |-> h.booking,
                  message |-> "Payment processed successfully"])

\* sendBookingConfirmation ends: the handler logs a failure and responds
NotifierReturns ==
    \E h \in inflight, outcome \in NotifierOutcomes :
       /\ h.stage = "notify"
       /\ result' = Spread(NotifierResponse(h, outcome), [logged |-> Logged(outcome)])
       /\ inflight' = inflight \ {h}
       /\ UNCHANGED <<bookings, now, createdOrder, updates, notified, calc,
                      contacts, form, cms, slideshow>>

Next ==
    \/ Tick
    \/ GetBookings
    \/ GetBookingById
    \/ PostBooking
    \/ PatchBooking
    \/ ProcessPayment
    \/ PaymentTimerFires
    \/ NotifierReturns

Spec == Init /\ [][Next]_vars

(***************************************************************************)
(* SpecFault: Spec with storage calls that reject                          *)
(*                                                                         *)
(* The handlers await the storage inside try/catch; an error that is no    *)
(* ZodError takes the 500 branch of the route.                             *)
(***************************************************************************)
\* the messages of the errors a storage call rejects with
InternalErrors == {"connection lost", "out of memory"}

\* the body of the 500 response of a route for the error caught
ServerError(route, message) ==
    IF route = "POST /api/process-payment"
    THEN [message |-> "Payment processing failed", error |-> message]
    ELSE [message |-> "Failed to create booking"]

\* POST /api/bookings: the body passes validation, storage.createBooking
\* rejects
PostBookingThrows ==
    /\ \E body \in BookingBodies, e \in InternalErrors :
          /\ SchemaIssues(body) = {}
          /\ result' = Respond("POST /api/bookings", [body |-> body], 500,
                               ServerError("POST /api/bookings", e))
    /\ UNCHANGED <<bookings, now, createdOrder, updates, inflight, notified, calc,
                   contacts, form, cms, slideshow>>

\* POST /api/process-payment: the timer has fired, storage.createBooking
\* rejects
PaymentThrows ==
    /\ \E h \in inflight, e \in InternalErrors :
          /\ h.stage = "delay"
          /\ result' = Respond("POST /api/process-payment", h.req, 500,
                               ServerError("POST /api/process-payment", e))
          /\ inflight' = inflight \ {h}
    /\ UNCHANGED <<bookings, now, createdOrder, updates, notified, calc, contacts, form, cms, slideshow>>

NextFault ==
    \/ Next
    \/ PostBookingThrows
    \/ PaymentThrows

SpecFault == Init /\ [][NextFault]_vars

(***************************************************************************)
(* SpecForm: the BookingForm component and the server it posts to          *)
(*                                                                         *)
(* The visitor fills in the two date inputs, submits the form, submits the *)
(* payment dialog; two seconds later the booking is posted as confirmed.   *)
(* The other inputs hold values the schema accepts.                        *)
(***************************************************************************)
\* the values of an <input type="date">
FormDates == {EmptyStr, CheckinStr, CheckoutStr}

\* the values react-hook-form hands to the resolver and to onSubmit
FormValues ==
    [checkinDate |-> form.checkinDate, checkoutDate |-> form.checkoutDate,
     guests |-> 1, guestName |-> "Ana", guestEmail |-> ValidEmail,
     guestPhone |-> "", totalAmount |-> "0", status |-> "pending"]

\* total.toString()
NumToString(n) == IF n.nan THEN "NaN" ELSE ToString(n.v)

\* the constraint validation of the browser: the checkout input carries
\* min = the checkin value, so a submit with an earlier checkout is blocked
NativeValid ==
    (form.checkinDate.kind = "iso" /\ form.checkoutDate.kind = "iso") =>
        GetTime(form.checkoutDate).v >= GetTime(form.checkinDate).v

\* createBookingMutation.isPending
IsPending == form.awaiting > 0

\* the visitor changes one of the date inputs
FormSetDate ==
    /\ ~form.showPaymentForm
    /\ \E f \in {"checkinDate", "checkoutDate"}, d \in FormDates :
          /\ form[f] # d
          /\ form' = [form EXCEPT ![f] = d]
    /\ UNCHANGED <<bookings, now, createdOrder, updates, result, inflight, notified, calc,
                   contacts, cms, slideshow>>

\* onSubmit: the data is kept with the total the calculator shows and the
\* payment dialog opens
onSubmit(data) ==
    form' = [form EXCEPT
        !.bookingData =
            Spread(data, [totalAmount |->
                NumToString(calculateTotal(data.checkinDate, data.checkoutDate,
                                           data.guests))]),
        !.showPaymentForm = TRUE]

\* the visitor presses Reserve Now: form.handleSubmit(onSubmit)
FormSubmit ==
    /\ ~form.showPaymentForm
    /\ ~IsPending
    /\ NativeValid
    /\ SchemaIssues(FormValues) = {}
    /\ onSubmit(FormValues)
    /\ UNCHANGED <<bookings, now, createdOrder, updates, result, inflight, notified, calc,
                   contacts, cms, slideshow>>

\* the visitor presses Back in the payment dialog
FormBack ==
    /\ form.showPaymentForm
    /\ form' = [form EXCEPT !.showPaymentForm = FALSE]
    /\ UNCHANGED <<bookings, now, createdOrder, updates, result, inflight, notified, calc,
                   contacts, cms, slideshow>>

\* the visitor presses Pay with card data the payment schema accepts:
\* onPaymentSubmit starts the timer of the mocked payment
FormPaymentSubmit ==
    /\ form.showPaymentForm
    /\ ~IsPending
    /\ \E paymentData \in PaymentDatas : PaymentOk(paymentData)
    /\ form.bookingData # NoBookingData
    /\ Len(form.timers) + form.awaiting < MaxTimers
    /\ form' = [form EXCEPT !.timers = Append(@, form.bookingData)]
    /\ UNCHANGED <<bookings, now, createdOrder, updates, result, inflight, notified, calc,
                   contacts, cms, slideshow>>

\* the timer of onPaymentSubmit fires: the booking data it captured is
\* posted as confirmed and the payment dialog closes
FormTimerFires ==
    /\ form.timers # <<>>
    /\ form' = [form EXCEPT
          !.timers = Tail(@),
          !.sent = Append(@, Spread(Head(form.timers), [status |-> "confirmed"])),
          !.awaiting = @ + 1,
          !.showPaymentForm = FALSE]
    /\ UNCHANGED <<bookings, now, createdOrder, updates, result, inflight, notified, calc,
                   contacts, cms, slideshow>>

\* a request of the form reaches the server and is handled
FormPostArrives ==
    \E i \in 1..Len(form.sent) :
       /\ PostBookingOf(form.sent[i])
       /\ form' = [form EXCEPT
             !.sent = SubSeq(@, 1, i - 1) \o SubSeq(@, i + 1, Len(@))]

\* the requests of the form the server has not answered yet
Unanswered ==
    Len(form.sent) + Cardinality({h \in inflight : h.route = "POST /api/bookings"})

\* a response reaches the browser: onSuccess resets the form
FormOnSuccess ==
    /\ form.awaiting > Unanswered
    /\ form' = [form EXCEPT
          !.awaiting = @ - 1,
          !.checkinDate = EmptyStr,
          !.checkoutDate = EmptyStr]
    /\ UNCHANGED <<bookings, now, createdOrder, updates, result, inflight, notified, calc,
                   contacts, cms, slideshow>>

\* every booking of the form is created at one instant: the clock plays no
\* part in the form
NextForm ==
    \/ FormSetDate
    \/ FormSubmit
    \/ FormBack
    \/ FormPaymentSubmit
    \/ FormTimerFires
    \/ FormPostArrives
    \/ NotifierReturns
    \/ FormOnSuccess

SpecForm == Init /\ [][NextForm]_vars

(***************************************************************************)
(* SpecCms: the image and content routes                                   *)
(*                                                                         *)
(* The admin page edits an image with the body {title, description, url}   *)
(* and a section with the body {title, content}; other clients may send    *)
(* the remaining fields as well.                                           *)
(***************************************************************************)
\* the properties that hold a number, and those that may be undefined
NumberProps == {"sortOrder"}
OptionalProps == {"title", "description", "url", "isActive", "content", "metadata"}

\* obj[f] === undefined
IsUndefined(obj, f) ==
    IF f \in NumberProps THEN obj[f] = UndefinedNum
    ELSE f \in OptionalProps /\ obj[f] = Undefined

\* req.body.f for a number-valued property
BodyNum(body, f) == IF f \in DOMAIN body THEN body[f] ELSE UndefinedNum

\* JSON.stringify of an object: properties that are undefined are left out
Json(obj) == [f \in {g \in DOMAIN obj : ~IsUndefined(obj, g)} |-> obj[f]]

\* a.sortOrder || 0
SortOrderOf(img) ==
    IF img.sortOrder = UndefinedNum \/ img.sortOrder.nan THEN 0 ELSE img.sortOrder.v

\* the comparator of getPropertyImages
CompareSortOrder(a, b) == SortOrderOf(a) - SortOrderOf(b)

RECURSIVE InsertBySortOrder(_, _)
InsertBySortOrder(x, s) ==
    IF s = <<>> THEN <<x>>
    ELSE IF CompareSortOrder(x, Head(s)) <= 0
         THEN <<x>> \o s
         ELSE <<Head(s)>> \o InsertBySortOrder(x, Tail(s))

RECURSIVE SortBySortOrder(_)
SortBySortOrder(s) ==
    IF s = <<>> THEN <<>>
    ELSE InsertBySortOrder(Head(s), SortBySortOrder(Tail(s)))

\* the active images in display order, of one category when one is given
getPropertyImages(m, category) ==
    LET images == SortBySortOrder(SelectSeq(MapValues(m),
                                            LAMBDA img : img.isActive = "true"))
    IN  IF Truthy(category)
        THEN SelectSeq(images, LAMBDA img : img.category = category)
        ELSE images

getPropertyImage(m, id) == MapGet(m, id)

\* the Map after updatePropertyImage
updatePropertyImage(m, id, updateData) ==
    IF ~MapHas(m, id) THEN m
    ELSE MapSet(m, id, Spread(MapGet(m, id), updateData))

\* the value updatePropertyImage returns
updatePropertyImageResult(m, id, updateData) ==
    IF ~MapHas(m, id) THEN NotFound
    ELSE Spread(MapGet(m, id), updateData)

\* Map.delete
MapDelete(m, k) == SelectSeq(m, LAMBDA e : e.key # k)

deletePropertyImage(m, id) == MapDelete(m, id)

\* the first section with the key, or NotFound for undefined
getContentSection(m, sectionKey) ==
    LET found == SelectSeq(MapValues(m), LAMBDA s : s.sectionKey = sectionKey)
    IN  IF found = <<>> THEN NotFound ELSE Head(found)

\* the value updateContentSection returns
updateContentSectionResult(m, sectionKey, updateData, time) ==
    IF getContentSection(m, sectionKey) = NotFound THEN NotFound
    ELSE Spread(Spread(getContentSection(m, sectionKey), updateData),
                [updatedAt |-> time])

\* the Map after updateContentSection
updateContentSection(m, sectionKey, updateData, time) ==
    IF getContentSection(m, sectionKey) = NotFound THEN m
    ELSE MapSet(m, sectionKey, updateContentSectionResult(m, sectionKey, updateData, time))

ImageIds == 1..3
SectionKeys == {"hero-title", "footer"}
Categories == {Undefined, "exterior", "interior"}

\* bodies of PUT /api/images/:id: the one of EditImageForm, a full one, and
\* one that only hides the image
ImageBodies ==
    {[title |-> "Front", description |-> "Seen from the road", url |-> "front.jpg"],
     [title |-> "Front", description |-> "Seen from the road", url |-> "front.jpg",
      sortOrder |-> Num(2), isActive |-> "true"],
     [isActive |-> "false"]}

\* bodies of PUT /api/content/:sectionKey: the one of EditContentForm and a
\* full one
ContentBodies ==
    {[title |-> "Headline", content |-> "Welcome"],
     [title |-> "Headline", content |-> "Welcome", metadata |-> "{editable: false}"]}

\* the object the handler of PUT /api/images/:id passes to the storage
ImageUpdateOf(body) ==
    [title |-> Prop(body, "title"),
     description |-> Prop(body, "description"),
     url |-> Prop(body, "url"),
     sortOrder |-> BodyNum(body, "sortOrder"),
     isActive |-> Prop(body, "isActive")]

\* the object the handler of PUT /api/content/:sectionKey passes to the storage
ContentUpdateOf(body) ==
    [title |-> Prop(body, "title"),
     content |-> Prop(body, "content"),
     metadata |-> Prop(body, "metadata")]

\* GET /api/images
GetImages ==
    \E category \in Categories :
        /\ result' = Respond("GET /api/images", [query |-> [category |-> category]], 200,
                             getPropertyImages(cms.images, category))
        /\ UNCHANGED <<bookings, now, createdOrder, updates, inflight, notified, calc,
                       contacts, form, cms, slideshow>>

\* GET /api/images/:id
GetImage ==
    \E id \in ImageIds :
        /\ result' = IF getPropertyImage(cms.images, id) = NotFound
                     THEN Respond("GET /api/images/:id", [id |-> id], 404,
                                  [message |-> "Image not found"])
                     ELSE Respond("GET /api/images/:id", [id |-> id], 200,
                                  Json(getPropertyImage(cms.images, id)))
        /\ UNCHANGED <<bookings, now, createdOrder, updates, inflight, notified, calc,
                       contacts, form, cms, slideshow>>

\* PUT /api/images/:id
PutImage ==
    \E id \in ImageIds, body \in ImageBodies :
        LET req == [id |-> id, body |-> body]
            image == updatePropertyImageResult(cms.images, id, ImageUpdateOf(body))
        IN  /\ cms' = [cms EXCEPT !.images =
                           updatePropertyImage(cms.images, id, ImageUpdateOf(body))]
            /\ result' = IF image = NotFound
                         THEN Respond("PUT /api/images/:id", req, 404,
                                      [message |-> "Image not found"])
                         ELSE Respond("PUT /api/images/:id", req, 200, Json(image))
            /\ UNCHANGED <<bookings, now, createdOrder, updates, inflight, notified, calc,
                           contacts, form, slideshow>>

\* DELETE /api/images/:id
DeleteImage ==
    \E id \in ImageIds :
        /\ cms' = [cms EXCEPT !.images = deletePropertyImage(cms.images, id)]
        /\ result' = IF MapHas(cms.images, id)
                     THEN Respond("DELETE /api/images/:id", [id |-> id], 200,
                                  [message |-> "Image deleted successfully"])
                     ELSE Respond("DELETE /api/images/:id", [id |-> id], 404,
                                  [message |-> "Image not found"])
        /\ UNCHANGED <<bookings, now, createdOrder, updates, inflight, notified, calc,
                       contacts, form, slideshow>>

\* GET /api/content/:sectionKey
GetContent ==
    \E sectionKey \in SectionKeys :
        /\ result' = IF getContentSection(cms.sections, sectionKey) = NotFound
                     THEN Respond("GET /api/content/:sectionKey",
                                  [sectionKey |-> sectionKey], 404,
                                  [message |-> "Content section not found"])
                     ELSE Respond("GET /api/content/:sectionKey",
                                  [sectionKey |-> sectionKey], 200,
                                  Json(getContentSection(cms.sections, sectionKey)))
        /\ UNCHANGED <<bookings, now, createdOrder, updates, inflight, notified, calc,
                       contacts, form, cms, slideshow>>

\* PUT /api/content/:sectionKey
PutContent ==
    \E sectionKey \in SectionKeys, body \in ContentBodies :
        LET req == [sectionKey |-> sectionKey, body |-> body]
            updatedContent == updateContentSectionResult(cms.sections, sectionKey,
                                                         ContentUpdateOf(body), now)
        IN  /\ cms' = [cms EXCEPT !.sections =
                           updateContentSection(cms.sections, sectionKey,
                                                ContentUpdateOf(body), now)]
            /\ result' = IF updatedContent = NotFound
                         THEN Respond("PUT /api/content/:sectionKey", req, 404,
                                      [message |-> "Content section not found"])
                         ELSE Respond("PUT /api/content/:sectionKey", req, 200,
                                      Json(updatedContent))
            /\ UNCHANGED <<bookings, now, createdOrder, updates, inflight, notified, calc,
                           contacts, form, slideshow>>

NextCms ==
    \/ GetImages
    \/ GetImage
    \/ PutImage
    \/ DeleteImage
    \/ GetContent
    \/ PutContent
    \/ Tick

SpecCms == Init /\ [][NextCms]_vars

(***************************************************************************)
(* SpecSlide: the slideshow of the home page                               *)
(*                                                                         *)
(* The home page passes the urls of the exterior images it fetched, an     *)
(* empty array until the first answer arrives; the slideshow advances on a *)
(* timer and on the visitor's clicks while the admin changes the images.   *)
(***************************************************************************)
\* images.length
ImagesLength == Num(Len(slideshow.images))

\* the updater of the interval callback and of nextSlide
NextSlideOf(prev) == NumMod(NumAdd(prev, Num(1)), ImagesLength)

\* the updater of previousSlide
PreviousSlideOf(prev) ==
    NumMod(NumAdd(NumSub(prev, Num(1)), ImagesLength), ImagesLength)

\* the interval of the auto-advance fires
SlideTick ==
    /\ slideshow' = [slideshow EXCEPT !.currentSlide = NextSlideOf(@)]
    /\ UNCHANGED <<bookings, now, createdOrder, updates, result, inflight, notified, calc,
                   contacts, form, cms>>

\* the visitor clicks the right arrow
nextSlide ==
    /\ slideshow' = [slideshow EXCEPT !.currentSlide = NextSlideOf(@)]
    /\ UNCHANGED <<bookings, now, createdOrder, updates, result, inflight, notified, calc,
                   contacts, form, cms>>

\* the visitor clicks the left arrow
previousSlide ==
    /\ slideshow' = [slideshow EXCEPT !.currentSlide = PreviousSlideOf(@)]
    /\ UNCHANGED <<bookings, now, createdOrder, updates, result, inflight, notified, calc,
                   contacts, form, cms>>

\* the visitor clicks the indicator of one of the images
goToSlide ==
    /\ \E index \in 0..(Len(slideshow.images) - 1) :
          slideshow' = [slideshow EXCEPT !.currentSlide = Num(index)]
    /\ UNCHANGED <<bookings, now, createdOrder, updates, result, inflight, notified, calc,
                   contacts, form, cms>>

\* the query of the home page is answered: the slideshow is rendered with
\* the urls of the active exterior images
ImagesFetched ==
    /\ LET exteriorImages == getPropertyImages(cms.images, "exterior")
       IN  slideshow' = [slideshow EXCEPT
              !.images = [i \in 1..Len(exteriorImages) |-> exteriorImages[i].url]]
    /\ UNCHANGED <<bookings, now, createdOrder, updates, result, inflight, notified, calc,
                   contacts, form, cms>>

NextSlide ==
    \/ SlideTick
    \/ nextSlide
    \/ previousSlide
    \/ goToSlide
    \/ ImagesFetched
    \/ PutImage
    \/ DeleteImage

SpecSlide == Init /\ [][NextSlide]_vars

(***************************************************************************)
(* Properties of calculateTotal (checked under SpecCalc)                   *)
(***************************************************************************)
BothDates == calc.checkin.kind = "iso" /\ calc.checkout.kind = "iso"

\* checkout minus checkin, in time units, when both strings denote dates
StayLength == GetTime(calc.checkout).v - GetTime(calc.checkin).v

\* the least number of whole days that covers a positive length
CeilDays(length) ==
    CHOOSE n \in 1..length : (n - 1) * UnitsPerDay < length /\ length <= n * UnitsPerDay

\* the integer nearest to n * pct / 100, a half counted upwards
Nearest(n, pct) ==
    CHOOSE r \in 0..n : 100 * r - 50 <= n * pct /\ n * pct < 100 * r + 50

\* C1: when checkout is strictly after checkin, calculateTotal returns
\* subtotal + service fee + taxes with nights the ceiling of the difference
\* in days, subtotal 850 * nights, fee round(6%) and taxes round(8%); a
\* one-night stay totals 969.
C1_TotalOfStay ==
    (calc.applied /\ BothDates /\ StayLength > 0) =>
        LET nights == CeilDays(StayLength)
            subtotal == 850 * nights
        IN /\ calc.total = Num(subtotal + Nearest(subtotal, 6) + Nearest(subtotal, 8))
           /\ (nights = 1 => calc.total = Num(969))

\* a stay whose length is no whole number of days has been priced
C1_Witness ==
    /\ calc.applied /\ BothDates /\ StayLength > UnitsPerDay
    /\ StayLength % UnitsPerDay # 0

\* C2: calculateTotal returns 0 when a date is empty or checkout is on or
\* before checkin, for every guest count.
C2_ZeroTotal ==
    (calc.applied /\ (\/ calc.checkin.kind = "empty"
                      \/ calc.checkout.kind = "empty"
                      \/ (BothDates /\ StayLength <= 0))) =>
        calc.total = Num(0)

\* a checkout more than a day before the checkin has been priced
C2_Witness ==
    calc.applied /\ BothDates /\ StayLength < -UnitsPerDay /\ calc.guests > 0

\* C3: calculateTotal returns 0 when a date string is non-empty but denotes
\* no date.
C3_UnparseableIsZero ==
    (calc.applied /\ (calc.checkin.kind = "text" \/ calc.checkout.kind = "text")) =>
        calc.total = Num(0)

\* C24: for a stay of one night or more the breakdown shows the components
\* the calculator used: subtotal 850 * nights, service fee round(6%) and
\* taxes round(8%) of the subtotal.
C24_BreakdownComponents ==
    (calc.applied /\ calc.breakdown.shown) =>
        LET subtotal == 850 * calc.breakdown.nights.v
        IN /\ calc.breakdown.subtotal = subtotal
           /\ calc.breakdown.serviceFee = Nearest(subtotal, 6)
           /\ calc.breakdown.taxes = Nearest(subtotal, 8)

\* C28: for a stay of one night or more the subtotal, the service fee and
\* the taxes shown add up to the total shown.
C28_BreakdownAddsUp ==
    (calc.applied /\ calc.breakdown.shown) =>
        calc.breakdown.subtotal + calc.breakdown.serviceFee + calc.breakdown.taxes
           = calc.breakdown.total

(***************************************************************************)
(* Properties of the repository (checked under SpecRepo)                   *)
(***************************************************************************)
\* the record getBooking returns for the booking the last call created
CreatedThenGot == getBooking(bookings, result.ret.id)

ServerFieldsPopulated(b) ==
    /\ {"id", "createdAt"} \subseteq DOMAIN b
    /\ b.id \in Ids
    /\ b.createdAt \in Times

\* C4 as stated: the record got after a create carries the submitted
\* fields unchanged, an omitted phone as the absent marker, and a populated
\* id and createdAt.
C4_CreateThenGet_AsStated ==
    (result.op = "createBooking") =>
        /\ CreatedThenGot # NotFound
        /\ ServerFieldsPopulated(CreatedThenGot)
        /\ \A f \in SubmittedFields :
              IF f \in DOMAIN result.data
              THEN CreatedThenGot[f] = result.data[f]
              ELSE f = "guestPhone" /\ CreatedThenGot[f] = Null

\* C4: the record got after a create carries the submitted fields
\* unchanged, except that an omitted or an empty phone is the absent marker,
\* and a populated id and createdAt.
C4_CreateThenGet ==
    (result.op = "createBooking") =>
        /\ CreatedThenGot # NotFound
        /\ ServerFieldsPopulated(CreatedThenGot)
        /\ \A f \in SubmittedFields \ {"guestPhone"} :
              f \in DOMAIN result.data /\ CreatedThenGot[f] = result.data[f]
        /\ CreatedThenGot.guestPhone =
              IF "guestPhone" \in DOMAIN result.data /\ result.data.guestPhone # ""
              THEN result.data.guestPhone ELSE Null

\* a booking with a phone was created after another booking was updated
C4_Witness ==
    /\ result.op = "createBooking"
    /\ "guestPhone" \in DOMAIN result.data /\ result.data.guestPhone # ""
    /\ Len(bookings) >= 2 /\ updates > 0

\* a step of createBooking
IsCreate == createdOrder' # createdOrder

\* a step of updateBooking
IsUpdate == updates' # updates

DistinctKeys(m) == \A i, j \in 1..Len(m) : m[i].key = m[j].key => i = j

\* C5: createBooking assigns an identifier no stored booking has, adds one
\* record and leaves the stored ones unchanged; after n creates the store
\* holds n bookings with pairwise distinct identifiers.
C5_FreshIdentifier ==
    /\ [](Len(bookings) = Len(createdOrder) /\ DistinctKeys(bookings))
    /\ [][IsCreate =>
            /\ ~MapHas(bookings, result'.ret.id)
            /\ Len(bookings') = Len(bookings) + 1
            /\ \A i \in 1..Len(bookings) : bookings'[i] = bookings[i]
            /\ bookings'[Len(bookings')].val = result'.ret]_vars

\* a second booking has just been created
C5_Witness == result.op = "createBooking" /\ Len(bookings) >= 2

\* the place of an identifier in the order of creation
CreatedIndex(id) == CHOOSE i \in 1..Len(createdOrder) : createdOrder[i] = id

C7_UpdateFrame ==
    [][(IsUpdate /\ MapHas(bookings, result'.id)) =>
          LET id == result'.id
              updateData == result'.updateData
              old == MapGet(bookings, id)
              new == MapGet(bookings', id)
          IN /\ DOMAIN new = (DOMAIN old) \cup (DOMAIN updateData)
             /\ \A f \in DOMAIN new :
                   new[f] = IF f \in DOMAIN updateData THEN updateData[f] ELSE old[f]
             /\ Len(bookings') = Len(bookings)
             /\ \A i \in 1..Len(bookings) :
                   /\ bookings'[i].key = bookings[i].key
                   /\ bookings[i].key # id => bookings'[i] = bookings[i]
             /\ result'.ret = new]_vars

\* a booking was updated in some fields while another one is stored
C7_Witness ==
    /\ result.op = "updateBooking" /\ result.ret # NotFound
    /\ DOMAIN result.updateData # {} /\ Len(bookings) >= 2

\* C8: updateBooking with an identifier that is not stored returns the
\* absent result and leaves the store unchanged.
C8_UpdateUnknown ==
    [][(IsUpdate /\ ~MapHas(bookings, result'.id)) =>
          (result'.ret = NotFound /\ bookings' = bookings)]_vars

\* an update of an unknown identifier was answered while a booking is stored
C8_Witness ==
    /\ result.op = "updateBooking" /\ result.ret = NotFound
    /\ DOMAIN result.updateData # {} /\ Len(bookings) >= 1

(***************************************************************************)
(* Properties of the booking routes (checked under Spec)                   *)
(***************************************************************************)
\* C9: the only status change a stored booking undergoes is pending to
\* confirmed.
C9_OnlyPendingToConfirmed ==
    [][\A i \in 1..Len(bookings) :
          bookings'[i].val.status # bookings[i].val.status =>
             (bookings[i].val.status = "pending" /\ bookings'[i].val.status = "confirmed")]_vars

\* C10: the status of every stored booking is pending or confirmed.
C10_StatusInEnum ==
    \A i \in 1..Len(bookings) : bookings[i].val.status \in {"pending", "confirmed"}

\* a step in which a response to the route is sent
Responds(route) == result' # result /\ result'.op = route

GuestsOutOfRange(body) == body.guests < 1 \/ body.guests > 10

LacksAt(email) == \A i \in 1..Len(email) : email[i] # "@"

\* C11: POST /api/bookings with a guest count outside 1..10 or an email
\* without an @ is answered 400 with a body that names the failing field;
\* the store is unchanged and the notifier is not invoked.
C11_InvalidBodyRejected ==
    /\ [](\A h \in inflight :
             h.route = "POST /api/bookings" =>
                ~GuestsOutOfRange(h.req.body) /\ ~LacksAt(h.req.body.guestEmail))
    /\ [][Responds("POST /api/bookings") =>
            LET body == result'.req.body
            IN /\ GuestsOutOfRange(body) =>
                     /\ result'.code = 400
                     /\ "guests" \in result'.body.errors
                     /\ bookings' = bookings /\ notified' = notified
               /\ LacksAt(body.guestEmail) =>
                     /\ result'.code = 400
                     /\ "guestEmail" \in result'.body.errors
                     /\ bookings' = bookings /\ notified' = notified]_vars

\* eleven guests were refused while a booking is stored and a mail was sent
C11_Witness ==
    /\ result.op = "POST /api/bookings" /\ result.code = 400
    /\ result.req.body.guests = 11
    /\ Len(bookings) >= 1 /\ Len(notified) >= 1

\* the fields of a booking body that break their constraint
FailingFields(body) ==
    {f \in {"checkinDate", "checkoutDate"} : body[f] = EmptyStr}
       \cup {f \in {"guestName", "totalAmount"} : Len(body[f]) < 1}
       \cup (IF GuestsOutOfRange(body) THEN {"guests"} ELSE {})
       \cup (IF IsEmail(body.guestEmail) THEN {} ELSE {"guestEmail"})

\* C12: a body of POST /api/bookings that breaks several constraints is
\* answered 400 and the fields the error names are exactly the failing ones.
C12_AllFailingFieldsNamed ==
    (result.op = "POST /api/bookings" /\ Cardinality(FailingFields(result.req.body)) >= 2) =>
        /\ result.code = 400
        /\ result.body.errors = FailingFields(result.req.body)

\* a body with a bad guest count and a bad email was refused
C12_Witness ==
    /\ result.op = "POST /api/bookings"
    /\ FailingFields(result.req.body) = {"guests", "guestEmail"}
    /\ result.code = 400

\* the handlers whose wait for the notifier ends in this step
NotifierEnded == {h \in inflight \ inflight' : h.stage = "notify"}

\* C13: when the notifier returns false or throws during POST /api/bookings
\* of a confirmed booking, the response is still 201 with the created
\* booking and the booking stays stored.
C13_NotifierFailureTolerated ==
    [][\A h \in NotifierEnded :
          (h.route = "POST /api/bookings" /\ result'.logged # "none") =>
             /\ result'.code = 201
             /\ result'.body = h.booking
             /\ bookings' = bookings
             /\ MapHas(bookings', h.booking.id)]_vars

\* a creation was answered 201 after the notifier threw
C13_Witness ==
    /\ result.op = "POST /api/bookings" /\ result.code = 201
    /\ "logged" \in DOMAIN result /\ result.logged = "error: Email sending error"
    /\ MapHas(bookings, result.body.id)

\* a step in which POST /api/bookings stores a booking
IsPostCreate ==
    /\ createdOrder' # createdOrder
    /\ \A h \in inflight \ inflight' : h.stage # "delay"

\* C14: a POST /api/bookings that stores a booking invokes the notifier
\* once, with the stored record, when the status is confirmed, and not at
\* all otherwise; no later step of the request invokes it again.
C14_NotifiedIffConfirmed ==
    [][/\ IsPostCreate =>
             LET stored == bookings'[Len(bookings')].val
             IN IF stored.status = "confirmed"
                THEN notified' = Append(notified, stored)
                ELSE notified' = notified
       /\ createdOrder' = createdOrder => notified' = notified]_vars

\* a cancelled booking was stored without a mail after a confirmed one
\* was stored with one
C14_Witness ==
    /\ result.op = "POST /api/bookings" /\ result.code = 201
    /\ result.body.status = "cancelled"
    /\ Len(bookings) = 2 /\ Len(notified) = 1
    /\ notified[1] = bookings[1].val

\* the effect of a PATCH whose status is present: 404 without a change for
\* an unknown id, else the status stored and the updated booking returned
PatchApplied ==
    LET id == result'.req.id
        status == result'.req.body.status
    IN IF ~MapHas(bookings, id)
       THEN result'.code = 404 /\ bookings' = bookings
       ELSE /\ result'.code = 200
            /\ MapGet(bookings', id) = Spread(MapGet(bookings, id), [status |-> status])
            /\ result'.body = MapGet(bookings', id)
            /\ \A i \in 1..Len(bookings) :
                  bookings[i].key # id => bookings'[i] = bookings[i]

\* C15 as stated: PATCH answers 400 without a change when the body has no
\* status, and otherwise applies the given status, whatever the string.
C15_PatchStatus_AsStated ==
    [][Responds("PATCH /api/bookings/:id") =>
          IF "status" \notin DOMAIN result'.req.body
          THEN result'.code = 400 /\ bookings' = bookings
          ELSE PatchApplied]_vars

\* C15: PATCH answers 400 without a change when the body has no status or
\* an empty one, and otherwise applies the given status, whatever the
\* non-empty string.
C15_PatchStatus ==
    [][Responds("PATCH /api/bookings/:id") =>
          IF "status" \notin DOMAIN result'.req.body \/ result'.req.body.status = ""
          THEN result'.code = 400 /\ bookings' = bookings
          ELSE PatchApplied]_vars

\* a status outside the enumeration was stored by a PATCH
C15_Witness ==
    /\ result.op = "PATCH /api/bookings/:id" /\ result.code = 200
    /\ result.req.body.status = "cancelled"
    /\ MapGet(bookings, result.req.id).status = "cancelled"
    /\ Len(bookings) >= 2

(***************************************************************************)
(* Properties of the booking form (checked under SpecForm)                 *)
(***************************************************************************)
\* C16: every stored booking has its checkout strictly after its checkin.
C16_CheckoutAfterCheckin ==
    \A i \in 1..Len(bookings) :
       LET b == bookings[i].val
       IN /\ b.checkinDate.kind = "iso" /\ b.checkoutDate.kind = "iso"
          /\ GetTime(b.checkoutDate).v > GetTime(b.checkinDate).v

(***************************************************************************)
(* Further properties of the repository                                    *)
(***************************************************************************)
\* C17: the id and the createdAt of a stored booking never change, whatever
\* createBooking or updateBooking call follows, and the record stored under
\* an id carries that id.
C17_IdentityImmutable ==
    /\ [](\A i \in 1..Len(bookings) : bookings[i].val.id = bookings[i].key)
    /\ [][\A i \in 1..Len(bookings) :
             /\ bookings'[i].val.id = bookings[i].val.id
             /\ bookings'[i].val.createdAt = bookings[i].val.createdAt]_vars

\* the elements of a sequence
Range(s) == {s[i] : i \in 1..Len(s)}

C19_Snapshots ==
    [][(result'.op \in {"callerWrite", "callerWriteData"}) =>
          \A id \in Ids : getBooking(bookings', id) = getBooking(bookings, id)]_vars

(***************************************************************************)
(* Handlers in flight together (checked under Spec)                        *)
(***************************************************************************)
\* the fields of a whole booking record
BookingFields == SubmittedFields \cup {"id", "createdAt"}

C21_StoreNotifyRespond ==
    /\ \A h \in inflight :
          h.route = "POST /api/bookings" =>
             /\ FailingFields(h.req.body) = {}
             /\ getBooking(bookings, h.booking.id) # NotFound
             /\ \E b \in Range(getBookings(bookings)) : b.id = h.booking.id
             /\ h.booking \in Range(notified)
    /\ (result.op = "POST /api/bookings" /\ result.code = 201
           /\ result.body.status = "confirmed") =>
          /\ "logged" \in DOMAIN result
          /\ result.body \in Range(notified)
          /\ MapHas(bookings, result.body.id)

\* a GET found a booking whose notification is still pending
C21_Witness ==
    /\ result.op = "GET /api/bookings/:id" /\ result.code = 200
    /\ \E h \in inflight :
          /\ h.route = "POST /api/bookings" /\ h.stage = "notify"
          /\ h.booking.id = result.req.id
          /\ result.body = h.booking

\* C23: getBooking with an identifier that was never created returns the
\* absent result and changes nothing, and GET /api/bookings/:id answers 404.
C23_UnknownBooking ==
    [][(Responds("GET /api/bookings/:id")
          /\ result'.req.id \notin Range(createdOrder)) =>
             /\ getBooking(bookings, result'.req.id) = NotFound
             /\ result'.code = 404
             /\ result'.body = [message |-> "Booking not found"]
             /\ bookings' = bookings]_vars

\* an unknown identifier was asked for while bookings are stored
C23_Witness ==
    /\ result.op = "GET /api/bookings/:id" /\ result.code = 404
    /\ result.req.id \notin Range(createdOrder)
    /\ Len(bookings) >= 2

(***************************************************************************)
(* Server errors (checked under SpecFault)                                 *)
(***************************************************************************)
\* C22: the body of every 500 response is a message alone, fixed for the
\* route, so that it is the same whatever the internal error was.
C22_GenericServerError ==
    ("code" \in DOMAIN result /\ result.code = 500) =>
        /\ DOMAIN result.body = {"message"}
        /\ result.body.message \in {"Failed to create booking", "Payment processing failed"}

\* C26: whenever a stored booking has status confirmed, the notifier was
\* invoked for that booking before, also when the booking was created
\* pending and its status was set by PATCH.
C26_ConfirmedWasNotified ==
    \A i \in 1..Len(bookings) :
        bookings[i].val.status = "confirmed" =>
            \E j \in 1..Len(notified) : notified[j].id = bookings[i].key

\* C27: one pass through the payment dialog posts at most one booking:
\* whenever the form issues POST /api/bookings the dialog is still open (the
\* visitor has not gone back) and the timer that fires is the only one
\* started (further presses of Pay during the delay started none).
C27_OnePostPerPayment ==
    [][form'.awaiting > form.awaiting =>
          /\ form.showPaymentForm
          /\ Len(form.timers) = 1]_vars

\* a step in which POST /api/process-payment stores a booking
IsPaymentCreate ==
    /\ createdOrder' # createdOrder
    /\ \E h \in inflight \ inflight' : h.stage = "delay"

\* the payment data and the booking data of a request both pass validation
PaymentRequestValid(req) ==
    PaymentOk(req.paymentData) /\ SchemaIssues(req.bookingData) = {}

\* C29: POST /api/process-payment stores a booking only for a request whose
\* payment data and booking data both passed validation; the stored booking
\* has status confirmed whatever status was submitted; the notifier is
\* invoked for it once, when it is stored, and not again when the request is
\* answered; a request that fails either validation is answered 400 and
\* stores nothing, notifies nobody and leaves no handler behind.
C29_PaymentStoresValidated ==
    /\ [](/\ \A h \in inflight :
                h.route = "POST /api/process-payment" => PaymentRequestValid(h.req)
          /\ \A i, j \in 1..Len(notified) : notified[i].id = notified[j].id => i = j)
    /\ [][/\ IsPaymentCreate =>
                \E h \in inflight \ inflight' :
                   LET stored == bookings'[Len(bookings')].val
                   IN  /\ PaymentRequestValid(h.req)
                       /\ Len(bookings') = Len(bookings) + 1
                       /\ stored.status = "confirmed"
                       /\ notified' = Append(notified, stored)
          /\ Responds("POST /api/process-payment") =>
                /\ notified' = notified /\ bookings' = bookings
                /\ IF PaymentRequestValid(result'.req)
                   THEN /\ result'.code = 200
                        /\ result'.body.booking.status = "confirmed"
                        /\ MapHas(bookings, result'.body.booking.id)
                        /\ \E i \in 1..Len(notified) :
                               notified[i].id = result'.body.booking.id
                   ELSE /\ result'.code = 400
                        /\ inflight' = inflight]_vars

\* a payment that submitted the status pending was answered 200 with a
\* confirmed booking that is stored and was notified
C29_Witness ==
    /\ result.op = "POST /api/process-payment" /\ result.code = 200
    /\ "status" \in DOMAIN result.req.bookingData
    /\ result.req.bookingData.status = "pending"
    /\ result.body.booking.status = "confirmed"
    /\ getBooking(bookings, result.body.booking.id) = result.body.booking
    /\ \E i \in 1..Len(notified) : notified[i] = result.body.booking

(***************************************************************************)
(* Properties of the image and content routes (checked under SpecCms)      *)
(***************************************************************************)
\* C25: a PUT that names only some fields leaves the others as they were.
\* PUT /api/images/:id with only title, description and url keeps the
\* image's sortOrder and isActive, and an image GET /api/images returned
\* before is returned after; PUT /api/content/:sectionKey with only title
\* and content keeps the section's metadata.
C25_PartialPutKeepsFields ==
    [][/\ (/\ Responds("PUT /api/images/:id")
           /\ result'.code = 200
           /\ DOMAIN result'.req.body = {"title", "description", "url"})
          => LET id == result'.req.id
                 before == getPropertyImage(cms.images, id)
                 after == getPropertyImage(cms'.images, id)
             IN  /\ after.sortOrder = before.sortOrder
                 /\ after.isActive = before.isActive
                 /\ before \in Range(getPropertyImages(cms.images, Undefined))
                       => \E img \in Range(getPropertyImages(cms'.images, Undefined)) :
                             img.id = id
       /\ (/\ Responds("PUT /api/content/:sectionKey")
           /\ result'.code = 200
           /\ DOMAIN result'.req.body = {"title", "content"})
          => LET sectionKey == result'.req.sectionKey
             IN  getContentSection(cms'.sections, sectionKey).metadata
                   = getContentSection(cms.sections, sectionKey).metadata]_vars

(***************************************************************************)
(* Properties of the slideshow (checked under SpecSlide)                   *)
(***************************************************************************)
\* C30: whenever the image list is not empty the current slide is a valid
\* index into it (0 <= index < number of images), whatever ticks, clicks
\* and changes of the list came before, the empty list before the images
\* load included; from there next followed by previous shows the same slide.
C30_ValidSlideIndex ==
    slideshow.images # <<>> =>
        /\ ~slideshow.currentSlide.nan
        /\ 0 <= slideshow.currentSlide.v
        /\ slideshow.currentSlide.v < Len(slideshow.images)
        /\ PreviousSlideOf(NextSlideOf(slideshow.currentSlide)) = slideshow.currentSlide

====
